---------------------------- MODULE Spec2Model ----------------------------
(***************************************************************************)
(* A model of packages/web3-core-package/src/AbstractWeb3Object.js: the    *)
(* client object with its currentProvider accessor, setProvider            *)
(* propagation, extend and the proxy dispatcher.                           *)
(*                                                                         *)
(* Client objects are numbered 1..nClients in order of construction; 1 is  *)
(* the top-level client and the others are the children made by extend.    *)
(* JavaScript's null and undefined are the strings "null" and "undefined". *)
(***************************************************************************)
EXTENDS Integers, Sequences, FiniteSets, TLC

(* ------------------------------ bounds -------------------------------- *)
MaxClients == 2       \* client objects that are ever constructed
MaxSubs == 1          \* live subscriptions on one transport
MaxClear == 2         \* clearSubscriptions calls on one transport
MaxPackages == 2      \* child clients where extensions carry no methods
MaxLen == 2           \* length of a sequence response

(* ------------------------------ values -------------------------------- *)
Null == "null"
Undefined == "undefined"
None == "none"

\* Two transports: T1 exposes clearSubscriptions and a subscriptions array
\* (a socket provider), T2 exposes neither (an http provider).
Transports == {"T1", "T2"}
hasClearSubscriptions(t) == t = "T1"

\* What callers hand to the constructor and to setProvider. A factory
\* argument is the set of method names the supplied factory already holds.
ProviderArgs == {Null, Undefined, "T1"}
PackageArgs == {Null, Undefined, "ProvidersPackage"}
FactoryArgs == {{}, {"net"}}
Candidates == {"T1", "T2", "ws://node", "invalid"}

\* RPC method names an extension may register, namespace names an extension
\* may create, and the names read through the proxy.
MethodNames == {"net", "setProvider"}
NamespaceNames == {"net"}
AccessNames == MethodNames \cup NamespaceNames \cup {"currentProvider"}
ArgValues == {"a1", "a2"}
ControllerResults == {"r1", "r2"}

\* Members every constructed client has: the fields the constructor assigns
\* and the methods of the prototype.
OwnFields == {"extendedPackages", "providersPackage", "givenProvider", "providers",
              "methodModelFactory", "methodController"}
PrototypeMethods == {"isDependencyGiven", "setProvider", "clearSubscriptions",
                     "extend", "proxyHandler", "constructor"}

VARIABLES
    globalAbstractMethodModel, \* is the free identifier AbstractMethodModel bound
    nClients,                  \* number of constructed clients
    providerArg,               \* providerArg[c]: the provider passed to c's constructor
    currentProvider,           \* currentProvider[c]: the closure variable of line 60
    extendedPackages,          \* extendedPackages[c]: sequence of child clients
    namespaces,                \* namespaces[c][ns]: the child stored at this[ns], 0 if none
    methodModels,              \* methodModels[c]: names in c's factory's methodModels
    subscriptions,             \* subscriptions[t]: live subscriptions of transport t
    clearCalls,                \* clearCalls[t]: clearSubscriptions calls made on t
    held,                      \* the callable last returned by the proxy
    last,                      \* the last operation and how it ended
    hook                       \* an after-execution hook, its response and its answer

vars == <<globalAbstractMethodModel, nClients, providerArg, currentProvider,
          extendedPackages, namespaces, methodModels, subscriptions, clearCalls,
          held, last, hook>>

\* The client part of the state.
clientVars == <<globalAbstractMethodModel, nClients, providerArg, currentProvider,
                extendedPackages, namespaces, methodModels, subscriptions,
                clearCalls, held, last>>

Clients == 1..(MaxPackages + 1)
Live == 1..nClients

\* held: no callable yet. last: no operation yet; events are the
\* clearSubscriptions calls and slot assignments the operation made, execs the
\* execute calls it made, before the undefined member read just before it.
NoHeld == [target |-> 0, name |-> None]
NoAccess == [client |-> 0, name |-> None]
NoOp == [op |-> None, client |-> 0, name |-> None, arg |-> None, arg2 |-> None,
         methods |-> {}, outcome |-> None, kind |-> None, value |-> None,
         ref |-> 0, events |-> <<>>, execs |-> <<>>, before |-> NoAccess]

(* --------------------------- collaborators ---------------------------- *)
\* ProvidersPackage.resolve: a ready transport is returned as it is, a
\* specifier the registry knows is turned into a transport, anything else
\* fails.
resolvable(candidate) == candidate \in Transports \cup {"ws://node"}
resolve(candidate) == IF candidate = "ws://node" THEN "T1" ELSE candidate

\* MethodModelFactory.hasMethodModel: a pure lookup in the factory of client c.
hasMethodModel(c, name) == name \in methodModels[c]

(* ------------------------------ helpers ------------------------------- *)
\* isDependencyGiven: object !== null || typeof object !== 'undefined'
isDependencyGiven(object) == object # Null \/ object # Undefined

\* The batchRequestPackage a client was constructed with: the top-level
\* client is given one, a child is constructed by extend with four arguments
\* only (lines 152-157).
batchRequestPackageOf(c) == IF c = 1 THEN "BatchRequestPackage" ELSE Undefined

\* Line 79: the BatchRequest member is assigned when the package is given.
hasBatchRequest(c) == isDependencyGiven(batchRequestPackageOf(c))

\* target[name]: a namespace stored by extend is an own property and shadows
\* the prototype; currentProvider reads the accessor's closure variable.
targetMember(t, name) ==
    IF name \in NamespaceNames /\ namespaces[t][name] # 0
    THEN [value |-> "client", ref |-> namespaces[t][name]]
    ELSE IF name = "currentProvider"
    THEN [value |-> currentProvider[t], ref |-> 0]
    ELSE IF name = "BatchRequest"
    THEN [value |-> IF hasBatchRequest(t) THEN "function" ELSE Undefined, ref |-> 0]
    ELSE IF name \in OwnFields THEN [value |-> "object", ref |-> 0]
    ELSE IF name \in PrototypeMethods THEN [value |-> "function", ref |-> 0]
    ELSE [value |-> Undefined, ref |-> 0]

\* The dispatcher without its collision check: a registered name is always
\* answered with a callable.
proxyHandlerUnchecked(t, name) ==
    IF hasMethodModel(t, name)
    THEN [kind |-> "callable", value |-> name, ref |-> 0]
    ELSE [kind |-> "member", value |-> targetMember(t, name).value,
          ref |-> targetMember(t, name).ref]

\* The dispatcher remembering how a name resolved: a name that was read as an
\* undefined member is answered from that earlier lookup.
proxyHandlerCached(t, name) ==
    IF last.op = "extend" /\ last.before = [client |-> t, name |-> name]
    THEN [kind |-> "member", value |-> Undefined, ref |-> 0]
    ELSE IF hasMethodModel(t, name)
    THEN IF targetMember(t, name).value # Undefined
         THEN [kind |-> "throw", value |-> "DuplicateError", ref |-> 0]
         ELSE [kind |-> "callable", value |-> name, ref |-> 0]
    ELSE [kind |-> "member", value |-> targetMember(t, name).value,
          ref |-> targetMember(t, name).ref]

\* A get trap that refuses a name without a method model instead of handing
\* out target[name].
proxyHandlerStrict(t, name) ==
    IF hasMethodModel(t, name)
    THEN IF targetMember(t, name).value # Undefined
         THEN [kind |-> "throw", value |-> "DuplicateError", ref |-> 0]
         ELSE [kind |-> "callable", value |-> name, ref |-> 0]
    ELSE IF targetMember(t, name).value = "function"
    THEN [kind |-> "member", value |-> "function", ref |-> 0]
    ELSE [kind |-> "throw", value |-> "TypeError", ref |-> 0]

\* proxyHandler(target, name): the get trap of the proxy.
proxyHandler(t, name) ==
    IF hasMethodModel(t, name)
    THEN IF targetMember(t, name).value # Undefined
         THEN [kind |-> "throw", value |-> "DuplicateError", ref |-> 0]
         ELSE [kind |-> "callable", value |-> name, ref |-> 0]
    ELSE [kind |-> "member", value |-> targetMember(t, name).value,
          ref |-> targetMember(t, name).ref]

(* ----------------------------- constructor ---------------------------- *)
\* How new AbstractWeb3Object(provider, providersPackage, ...) ends: the two
\* dependency checks, then this.providersPackage.detect() on line 52, which
\* is a TypeError when providersPackage is null or undefined.
constructorOutcome(provider, providersPackage) ==
    IF ~isDependencyGiven(provider) THEN "Provider not found!"
    ELSE IF ~isDependencyGiven(providersPackage) THEN "ProviderPackage not found!"
    ELSE IF providersPackage \in {Null, Undefined} THEN "TypeError"
    ELSE "ok"

\* The value the getter returns once the constructor is done. Line 51 assigns
\* provider to a plain data property; line 60 sets the closure variable to
\* null and line 65 replaces the data property by the accessor over it.
constructedProvider(provider) == Null

\* No after-execution hook has run.
NoHook == [formatter |-> None, isArray |-> FALSE, response |-> <<>>,
           underscore |-> FALSE, result |-> None, done |-> FALSE,
           installed |-> [err |-> None, isArray |-> FALSE, items |-> <<>>],
           written |-> [err |-> None, isArray |-> FALSE, items |-> <<>>]]

InitClient ==
    /\ globalAbstractMethodModel \in BOOLEAN
    /\ nClients = 0
    /\ providerArg = [c \in Clients |-> Undefined]
    /\ currentProvider = [c \in Clients |-> Null]
    /\ extendedPackages = [c \in Clients |-> <<>>]
    /\ namespaces = [c \in Clients |-> [ns \in NamespaceNames |-> 0]]
    /\ methodModels = [c \in Clients |-> {}]
    /\ subscriptions \in [Transports -> 0..MaxSubs]
    /\ \A t \in Transports : ~hasClearSubscriptions(t) => subscriptions[t] = 0
    /\ clearCalls = [t \in Transports |-> 0]
    /\ held = NoHeld
    /\ last = NoOp

Init == InitClient /\ hook = NoHook

\* new AbstractWeb3Object(provider, providersPackage, methodController,
\* methodModelFactory, batchRequestPackage) for the top-level client.
Construct(provider, providersPackage, factory) ==
    /\ nClients = 0
    /\ LET outcome == constructorOutcome(provider, providersPackage) IN
       /\ last' = [NoOp EXCEPT !.op = "construct", !.arg = provider,
                               !.arg2 = providersPackage, !.outcome = outcome,
                               !.client = IF outcome = "ok" THEN 1 ELSE 0]
       /\ IF outcome = "ok"
          THEN /\ nClients' = 1
               /\ providerArg' = [providerArg EXCEPT ![1] = provider]
               /\ currentProvider' =
                      [currentProvider EXCEPT ![1] = constructedProvider(provider)]
               /\ methodModels' = [methodModels EXCEPT ![1] = factory]
          ELSE UNCHANGED <<nClients, providerArg, currentProvider, methodModels>>
    /\ UNCHANGED <<globalAbstractMethodModel, extendedPackages, namespaces,
                   subscriptions, clearCalls, held>>

(* ------------------------- provider accessors ------------------------- *)
\* The part of the state a provider change works on, and how it ended.
Heap == [cur |-> currentProvider, subs |-> subscriptions, clears |-> clearCalls,
         events |-> <<>>, err |-> None]

\* The setter of currentProvider (lines 69-75) on client c. Reading
\* currentProvider.clearSubscriptions on line 70 is a TypeError while the
\* closure variable is null.
currentProviderSet(h, c, provider) ==
    IF h.cur[c] = Null THEN [h EXCEPT !.err = "TypeError"]
    ELSE LET old == h.cur[c]
             h1 == IF hasClearSubscriptions(old) /\ h.subs[old] > 0
                   THEN [h EXCEPT !.subs[old] = 0, !.clears[old] = @ + 1,
                                  !.events = Append(@, <<"clear", c, old>>)]
                   ELSE h
         IN  IF proxyHandler(c, "providersPackage").kind = "throw"
             THEN [h1 EXCEPT !.err = "DuplicateError"]
             ELSE IF ~resolvable(provider)
             THEN [h1 EXCEPT !.err = "ResolveError"]
             ELSE [h1 EXCEPT !.cur[c] = resolve(provider),
                             !.events = Append(@, <<"set", c, resolve(provider)>>)]

RECURSIVE setProvider(_, _, _), forEachPackage(_, _, _)

\* AbstractWeb3Object.prototype.setProvider (lines 117-127) called on client c.
setProvider(h, c, provider) ==
    LET h1 == currentProviderSet(h, c, provider)
    IN  IF h1.err # None THEN h1
        ELSE IF Len(extendedPackages[c]) > 0 THEN forEachPackage(h1, c, 1)
        ELSE h1

\* The forEach of lines 123-125 from the i-th extended package on: reading
\* extendedPackage.setProvider goes through the child's proxy, and an error
\* in one child ends the loop.
forEachPackage(h, c, i) ==
    IF i > Len(extendedPackages[c]) THEN h
    ELSE LET k == extendedPackages[c][i]
         IN  IF proxyHandler(k, "setProvider").kind = "throw"
             THEN [h EXCEPT !.err = "DuplicateError"]
             ELSE LET h1 == setProvider(h, k, h.cur[c])
                  IN  IF h1.err # None THEN h1 ELSE forEachPackage(h1, c, i + 1)

\* client.setProvider(candidate): the read of setProvider goes through the
\* proxy of c, then the method runs.
SetProvider(c, candidate) ==
    /\ c \in Live
    /\ LET got == proxyHandler(c, "setProvider")
           h == IF got.kind = "throw" THEN [Heap EXCEPT !.err = "DuplicateError"]
                ELSE setProvider(Heap, c, candidate)
       IN /\ currentProvider' = h.cur
          /\ subscriptions' = h.subs
          /\ clearCalls' = h.clears
          /\ last' = [NoOp EXCEPT !.op = "setProvider", !.client = c,
                                  !.arg = candidate, !.events = h.events,
                                  !.outcome = IF h.err = None THEN "ok" ELSE h.err]
    /\ UNCHANGED <<globalAbstractMethodModel, nClients, providerArg, extendedPackages,
                   namespaces, methodModels, held>>

\* AbstractWeb3Object.prototype.clearSubscriptions (lines 134-138).
clearSubscriptions(h, c) ==
    IF h.cur[c] = Null THEN [h EXCEPT !.err = "TypeError"]
    ELSE LET t == h.cur[c]
         IN  IF hasClearSubscriptions(t) /\ h.subs[t] > 0
             THEN [h EXCEPT !.subs[t] = 0, !.clears[t] = @ + 1,
                            !.events = Append(@, <<"clear", c, t>>)]
             ELSE h

ClearSubscriptions(c) ==
    /\ c \in Live
    /\ LET h == clearSubscriptions(Heap, c)
       IN /\ subscriptions' = h.subs
          /\ clearCalls' = h.clears
          /\ last' = [NoOp EXCEPT !.op = "clearSubscriptions", !.client = c,
                                  !.events = h.events,
                                  !.outcome = IF h.err = None THEN "ok" ELSE h.err]
    /\ UNCHANGED <<globalAbstractMethodModel, nClients, providerArg, currentProvider,
                   extendedPackages, namespaces, methodModels, held>>

\* A transport gains a live subscription (the work of the transport itself).
Subscribe(t) ==
    /\ hasClearSubscriptions(t)
    /\ subscriptions[t] < MaxSubs
    /\ clearCalls[t] < MaxClear
    /\ subscriptions' = [subscriptions EXCEPT ![t] = @ + 1]
    /\ last' = [NoOp EXCEPT !.op = "subscribe", !.arg = t, !.outcome = "ok"]
    /\ UNCHANGED <<globalAbstractMethodModel, nClients, providerArg, currentProvider,
                   extendedPackages, namespaces, methodModels, clearCalls, held>>

(* ------------------------------- extend ------------------------------- *)
\* An extension that always registers on this, whatever its property.
extendObjectThis(c, namespace, child) == c

\* The object the methods of an extension are registered on (lines 151-162):
\* the new child when the extension names a property, else this.
extendObject(c, namespace, child) == IF namespace # None THEN child ELSE c

\* A list that takes the new child at its head.
pushFirst(packages, object) == <<object>> \o packages

\* Line 159: this.extendedPackages.push(object).
push(packages, object) == Append(packages, object)

\* A registration that replaces the factory's methodModels object.
registerMethodModelsReplacing(models, methods) == methods

\* Line 200 for every method of the extension:
\* object.methodModelFactory.methodModels[method.name] = ExtensionMethodModel.
registerMethodModels(models, methods) == models \cup methods

\* How the forEach of lines 165-201 ends: line 198 reads the free identifier
\* AbstractMethodModel, a ReferenceError on the first method when it is not
\* bound; reading object.methodModelFactory on line 200 goes through the proxy.
extendMethodsOutcome(object, methods) ==
    IF methods = {} THEN "ok"
    ELSE IF ~globalAbstractMethodModel THEN "ReferenceError"
    ELSE IF proxyHandler(object, "methodModelFactory").kind = "throw"
    THEN "DuplicateError"
    ELSE "ok"

\* The first argument of new this.constructor on line 153: this.provider, read
\* through the proxy; no client has a member of that name.
extendProviderArgument(c) == proxyHandler(c, "provider").value

\* client.extend({property: namespace, methods: methods}) on client c. The
\* child is constructed with this.provider, which no client has, with the
\* parent's providersPackage and methodController and with a new factory.
Extend(c, namespace, methods) ==
    /\ c \in Live
    /\ namespace # None => nClients + 1 \in Clients
    /\ LET child == nClients + 1
           object == extendObject(c, namespace, child)
           outcome == extendMethodsOutcome(object, methods)
           created == [methodModels EXCEPT ![child] = {}]
           factories == IF namespace # None THEN created ELSE methodModels
       IN /\ IF namespace # None
             THEN /\ nClients' = child
                  /\ providerArg' =
                         [providerArg EXCEPT ![child] = extendProviderArgument(c)]
                  /\ currentProvider' =
                         [currentProvider EXCEPT
                             ![child] = constructedProvider(extendProviderArgument(c))]
                  /\ namespaces' = [namespaces EXCEPT ![c][namespace] = child]
                  /\ extendedPackages' =
                         [extendedPackages EXCEPT ![c] = push(@, child)]
             ELSE UNCHANGED <<nClients, providerArg, currentProvider, namespaces,
                              extendedPackages>>
          /\ methodModels' =
                 IF outcome = "ok"
                 THEN [factories EXCEPT ![object] = registerMethodModels(@, methods)]
                 ELSE factories
          /\ last' = [NoOp EXCEPT !.op = "extend", !.client = c, !.name = namespace,
                                  !.methods = methods, !.ref = object,
                                  !.outcome = outcome,
                                  !.before = IF last.op = "get" /\ last.kind = "member"
                                                /\ last.value = Undefined
                                             THEN [client |-> last.client,
                                                   name |-> last.name]
                                             ELSE NoAccess]
    /\ UNCHANGED <<globalAbstractMethodModel, subscriptions, clearCalls, held>>

(* ----------------------------- dispatcher ----------------------------- *)
\* A get trap that makes the callable before the test of line 217 and keeps
\* it when that test throws.
returnedCallableEager(got, c, name) ==
    IF got.kind \in {"callable", "throw"} THEN [target |-> c, name |-> name]
    ELSE held

\* The callable the caller holds after the read: lines 221-232 make one only
\* past the test of line 217; a throw or a member hands out none.
returnedCallable(got, c, name) ==
    IF got.kind = "callable" THEN [target |-> c, name |-> name]
    ELSE held

\* client[name] on client c: the proxy's get trap. A callable keeps the
\* method model made by createMethodModel(name) and the target.
Get(c, name) ==
    /\ c \in Live
    /\ LET got == proxyHandler(c, name)
       IN /\ held' = returnedCallable(got, c, name)
          /\ last' = [NoOp EXCEPT !.op = "get", !.client = c, !.name = name,
                                  !.kind = got.kind, !.value = got.value,
                                  !.ref = got.ref,
                                  !.before = IF last.op = "extend" THEN last.before
                                             ELSE NoAccess,
                                  !.outcome = IF got.kind = "throw" THEN got.value
                                              ELSE "ok"]
    /\ UNCHANGED <<globalAbstractMethodModel, nClients, providerArg, currentProvider,
                   extendedPackages, namespaces, methodModels, subscriptions,
                   clearCalls>>

\* The arguments of line 226:
\* target.methodController.execute(methodModel, target.currentProvider,
\*                                 target.accounts, target).
executeArguments(callable, arguments) ==
    [model |-> [name |-> callable.name, methodArguments |-> arguments],
     provider |-> currentProvider[callable.target], accounts |-> Undefined,
     target |-> callable.target]

\* anonymousFunction(arguments) of lines 223-227 on the held callable; the
\* method controller answers with result.
Invoke(arguments, result) ==
    /\ held.target # 0
    /\ last' = [NoOp EXCEPT !.op = "invoke", !.client = held.target,
                            !.name = held.name, !.arg = arguments,
                            !.execs = <<executeArguments(held, arguments)>>,
                            !.outcome = "ok", !.value = result]
    /\ UNCHANGED <<globalAbstractMethodModel, nClients, providerArg, currentProvider,
                   extendedPackages, namespaces, methodModels, subscriptions,
                   clearCalls, held>>

(* ---------------------------- batch factory --------------------------- *)
\* How client.BatchRequest() ends (lines 80-82). Reading createBatchRequest
\* of an absent batchRequestPackage is a TypeError; self is a free identifier
\* of the constructor: a ReferenceError where it is not bound, the global
\* object where it is.
batchRequestOutcome(c, selfBound) ==
    IF proxyHandler(c, "BatchRequest").kind = "throw" THEN "DuplicateError"
    ELSE IF ~hasBatchRequest(c) THEN "TypeError"
    ELSE IF batchRequestPackageOf(c) \in {Null, Undefined} THEN "TypeError"
    ELSE IF ~selfBound THEN "ReferenceError"
    ELSE "ok"

\* The transport handed to createBatchRequest: self.currentProvider, the
\* currentProvider property of the global object, which is not the client.
batchRequestProvider(c) == Undefined

BatchRequest(c, selfBound) ==
    /\ c \in Live
    /\ LET outcome == batchRequestOutcome(c, selfBound)
       IN last' = [NoOp EXCEPT !.op = "BatchRequest", !.client = c,
                               !.outcome = outcome,
                               !.value = IF outcome = "ok" THEN batchRequestProvider(c)
                                         ELSE None]
    /\ UNCHANGED <<globalAbstractMethodModel, nClients, providerArg, currentProvider,
                   extendedPackages, namespaces, methodModels, subscriptions,
                   clearCalls, held>>

(* ------------------------- after-execution hook ----------------------- *)
\* Response values: a hex string "0x..." is its sequence of digits, a number
\* is an int.
HexString(digits) == [kind |-> "hex", digits |-> digits, int |-> 0]
Number(n) == [kind |-> "int", digits |-> <<>>, int |-> n]

\* "0x1", "0x2", "0x5" and "0x1f".
ResponseItems == {HexString(<<1>>), HexString(<<2>>), HexString(<<5>>),
                  HexString(<<1, 15>>)}

RECURSIVE HexValue(_)
HexValue(digits) ==
    IF digits = <<>> THEN 0
    ELSE 16 * HexValue(SubSeq(digits, 1, Len(digits) - 1)) + digits[Len(digits)]

\* The output formatter of the extension: hexToInt.
hexToInt(item) == Number(HexValue(item.digits))

Formatters == {None, "hexToInt"}

outputFormatter(formatter, item) ==
    IF formatter = "hexToInt" THEN hexToInt(item) ELSE item

\* A hex string is never the empty string, a number is truthy unless it is 0.
truthy(item) == item.kind = "hex" \/ item.int # 0

Returned(isArray, items) == [err |-> None, isArray |-> isArray, items |-> items]
Thrown(err) == [err |-> err, isArray |-> FALSE, items |-> <<>>]

\* ExtensionMethodModel.prototype.afterExecution as lines 178-196 write it.
\* _ and result are free identifiers: reading an unbound one is a
\* ReferenceError; result is read only when the method has an output formatter.
writtenAfterExecution(formatter, isArray, response, underscore, result) ==
    IF ~underscore THEN Thrown("ReferenceError")
    ELSE IF isArray
    THEN Returned(TRUE, [i \in 1..Len(response) |->
                            IF formatter # None /\ truthy(response[i])
                            THEN outputFormatter(formatter, response[i])
                            ELSE response[i]])
    ELSE IF formatter # None /\ result = "unbound" THEN Thrown("ReferenceError")
    ELSE IF formatter # None /\ result = "truthy"
    THEN Returned(FALSE, <<outputFormatter(formatter, response[1])>>)
    ELSE Returned(FALSE, response)

\* The hook AbstractMethodModel.prototype gives a model: the response as is.
abstractAfterExecution(isArray, response) == Returned(isArray, response)

\* The hook a model registered by extend has. Line 198 replaces
\* ExtensionMethodModel.prototype after lines 170-196 have put the hooks on the
\* old prototype object: an instance inherits the hook of AbstractMethodModel.
installedAfterExecution(formatter, isArray, response) ==
    abstractAfterExecution(isArray, response)

\* The responses: a single item, or a sequence of up to MaxLen items.
SeqsUpTo(n) == UNION {[1..k -> ResponseItems] : k \in 0..n}

HookInputs ==
    {[NoHook EXCEPT !.formatter = f, !.isArray = a, !.response = r,
                    !.underscore = u, !.result = g] :
        f \in Formatters, a \in BOOLEAN, r \in SeqsUpTo(MaxLen),
        u \in BOOLEAN, g \in {"unbound", "falsy", "truthy"}}

\* extend has registered a model for a method with the output formatter
\* hook.formatter, and the controller has the response hook.response for it.
InitHook ==
    /\ InitClient
    /\ globalAbstractMethodModel
    /\ hook \in {h \in HookInputs : h.isArray \/ Len(h.response) = 1}

\* methodModel.afterExecution(response)
AfterExecution ==
    /\ ~hook.done
    /\ hook' = [hook EXCEPT
                   !.done = TRUE,
                   !.installed = installedAfterExecution(hook.formatter, hook.isArray,
                                                         hook.response),
                   !.written = writtenAfterExecution(hook.formatter, hook.isArray,
                                                     hook.response, hook.underscore,
                                                     hook.result)]
    /\ UNCHANGED clientVars

(* --------------------------- specification ---------------------------- *)
Next ==
    /\ \/ \E p \in ProviderArgs, pp \in PackageArgs, f \in FactoryArgs :
              Construct(p, pp, f)
       \/ \E c \in Clients, cand \in Candidates : SetProvider(c, cand)
       \/ \E c \in Clients : ClearSubscriptions(c)
       \/ \E t \in Transports : Subscribe(t)
       \/ \E c \in Clients, ns \in NamespaceNames \cup {None}, ms \in SUBSET MethodNames :
              /\ ns # None => nClients < MaxClients
              /\ Extend(c, ns, ms)
       \/ \E c \in Clients, name \in AccessNames : Get(c, name)
       \/ \E a \in ArgValues, r \in ControllerResults : Invoke(a, r)
    /\ UNCHANGED hook

Spec == Init /\ [][Next]_vars

\* The same client with up to MaxPackages children and its batch factory,
\* where extensions create namespaces and carry no methods.
NextPackages ==
    /\ \/ \E p \in ProviderArgs, pp \in PackageArgs, f \in FactoryArgs :
              Construct(p, pp, f)
       \/ \E c \in Clients, cand \in Candidates : SetProvider(c, cand)
       \/ \E c \in Clients, ns \in NamespaceNames \cup {None} : Extend(c, ns, {})
       \/ \E c \in Clients, name \in AccessNames \cup {"BatchRequest"} : Get(c, name)
       \/ \E a \in ArgValues, r \in ControllerResults : Invoke(a, r)
       \/ \E c \in Clients, selfBound \in BOOLEAN : BatchRequest(c, selfBound)
    /\ UNCHANGED hook

SpecPackages == Init /\ [][NextPackages]_vars

\* The after-execution hook of a registered extension method, on its own.
NextHook == AfterExecution

SpecHook == InitHook /\ [][NextHook]_vars

(* ------------------------------ claims -------------------------------- *)
\* The clients a setProvider on c reaches: c and, recursively, its extended
\* packages.
RECURSIVE reach(_)
reach(c) == {c} \cup UNION {reach(extendedPackages[c][i]) : i \in DOMAIN extendedPackages[c]}

\* No client's setProvider is shadowed by a method model of that name.
NoSetProviderModel == \A k \in Live : ~hasMethodModel(k, "setProvider")

\* C1: a set of the provider to a resolvable candidate, on a client that was
\* constructed with transport T, succeeds; when T exposes clearSubscriptions
\* and has a live subscription, clearSubscriptions is called on T exactly once
\* and before the slot is assigned; otherwise it is not called.
C1_ClearedOnceBeforeSwap ==
    [][(/\ last'.op = "setProvider"
        /\ resolvable(last'.arg)
        /\ providerArg[last'.client] \in Transports
        /\ NoSetProviderModel)
       => LET c == last'.client
              T == providerArg[c]
              ev == last'.events
              clears == {i \in DOMAIN ev : ev[i] = <<"clear", c, T>>}
              sets == {i \in DOMAIN ev : ev[i][1] = "set" /\ ev[i][2] = c}
          IN /\ last'.outcome = "ok"
             /\ currentProvider'[c] = resolve(last'.arg)
             /\ IF hasClearSubscriptions(T) /\ subscriptions[T] > 0
                THEN /\ Cardinality(clears) = 1
                     /\ clearCalls'[T] = clearCalls[T] + 1
                     /\ \A i \in clears, j \in sets : i < j
                ELSE /\ clears = {}
                     /\ clearCalls'[T] = clearCalls[T]]_vars

\* C2: after a successful construction with transport T the getter of the
\* top-level client yields T, and in every later state it yields a transport,
\* never null.
C2_SlotNeverNull ==
    /\ (last.op = "construct" /\ last.outcome = "ok" /\ last.arg \in Transports)
       => currentProvider[1] = last.arg
    /\ (nClients >= 1 /\ providerArg[1] \in Transports)
       => currentProvider[1] \in Transports

\* C3: construction succeeds exactly when the provider and the providers
\* package are both present; an absent provider fails with 'Provider not
\* found!', an absent providers package with 'ProviderPackage not found!', and
\* a failed construction yields no client.
C3_MissingDependencyFails ==
    last.op = "construct" =>
        LET noProvider == last.arg \in {Null, Undefined}
            noPackage == last.arg2 \in {Null, Undefined}
        IN /\ (last.outcome = "ok") <=> (~noProvider /\ ~noPackage)
           /\ noProvider => last.outcome = "Provider not found!"
           /\ (~noProvider /\ noPackage) => last.outcome = "ProviderPackage not found!"
           /\ last.outcome # "ok" => nClients = 0

\* C4: a setProvider whose candidate the registry cannot resolve surfaces the
\* registry's error and leaves the slot of every client as it was.
C4_ResolveFailureLeavesSlot ==
    [][(/\ last'.op = "setProvider"
        /\ ~resolvable(last'.arg)
        /\ providerArg[last'.client] \in Transports
        /\ NoSetProviderModel)
       => /\ last'.outcome = "ResolveError"
          /\ currentProvider' = currentProvider]_vars

\* C5: a setProvider with a resolvable candidate P on a client constructed with
\* a transport returns successfully, and then the client and every client its
\* extended packages reach hold the transport P resolves to.
C5_AllNamespacesOnNewTransport ==
    (/\ last.op = "setProvider"
     /\ resolvable(last.arg)
     /\ providerArg[last.client] \in Transports
     /\ NoSetProviderModel)
    => /\ last.outcome = "ok"
       /\ \A d \in reach(last.client) : currentProvider[d] = resolve(last.arg)

\* C6: an extend that names a property registers its methods in the new
\* child's factory only: every factory that existed before the call, the
\* parent's included, answers hasMethodModel as it did before.
C6_ChildRegistrationIsolated ==
    [][(last'.op = "extend" /\ last'.name # None)
       => /\ \A k \in Live : \A n \in MethodNames :
                 (n \in methodModels'[k]) <=> (n \in methodModels[k])
          /\ last'.ref = nClients'
          /\ last'.outcome = "ok" => last'.methods = methodModels'[last'.ref]]_vars

\* A child was given a method model that its parent's factory does not hold.
C6_Witness ==
    /\ last.op = "extend" /\ last.name # None /\ last.outcome = "ok"
    /\ \E n \in last.methods :
           n \in methodModels[last.ref] /\ n \notin methodModels[last.client]

\* C7: reading a name that is a registered method model and also a defined
\* member of the client (a field, a prototype method or a namespace) raises
\* the duplicate-method error: no member and no callable is returned.
C7_CollisionRaises ==
    (/\ last.op = "get"
     /\ hasMethodModel(last.client, last.name)
     /\ targetMember(last.client, last.name).value # Undefined)
    => /\ last.kind = "throw"
       /\ last.outcome = "DuplicateError"

\* A read of a name that is both a method model and a namespace was refused.
C7_Witness ==
    /\ last.op = "get" /\ last.outcome = "DuplicateError"
    /\ hasMethodModel(last.client, last.name)
    /\ targetMember(last.client, last.name).value = "client"

\* C8: an invocation of a callable of the client constructed with transport T
\* makes exactly one execute call, with the method model carrying the call's
\* arguments, the transport the slot holds, the accounts and the target.
C8_ExecuteGetsSlotTransport ==
    (last.op = "invoke" /\ providerArg[last.client] \in Transports)
    => /\ Len(last.execs) = 1
       /\ last.execs[1].model = [name |-> last.name, methodArguments |-> last.arg]
       /\ last.execs[1].target = last.client
       /\ last.execs[1].provider = currentProvider[last.client]
       /\ last.execs[1].provider \in Transports

C10_RegistrationsPersist ==
    [][/\ \A c \in Clients : methodModels[c] \subseteq methodModels'[c]
       /\ (last'.op = "extend" /\ last'.outcome = "ok")
          => last'.methods \subseteq methodModels'[last'.ref]]_vars

\* A later extend on the child left a name of an earlier extend in its factory.
C10_Witness ==
    /\ last.op = "extend" /\ last.outcome = "ok" /\ last.name = None
    /\ last.client = 2 /\ last.methods # {}
    /\ methodModels[2] \ last.methods # {}

\* C11: the after-execution hook of a method model that extend registered with
\* the output formatter F answers a sequence response with F applied to each
\* element in order, a single response r with F(r), and the response itself
\* when the method has no output formatter.
C11_HookFormatsResponse ==
    hook.done =>
        /\ hook.installed.err = None
        /\ hook.installed.isArray = hook.isArray
        /\ hook.installed.items =
               [i \in 1..Len(hook.response) |->
                   outputFormatter(hook.formatter, hook.response[i])]

\* C12: a batch made by the batch factory of a client that was constructed
\* with a transport and a batch package is bound to the transport the
\* client's provider slot holds when the batch is made.
C12_BatchBoundToSlotTransport ==
    (/\ last.op = "BatchRequest"
     /\ providerArg[last.client] \in Transports
     /\ batchRequestPackageOf(last.client) \notin {Null, Undefined}
     /\ ~hasMethodModel(last.client, "BatchRequest"))
    => (/\ last.outcome = "ok"
        /\ last.value \in Transports
        /\ last.value = currentProvider[last.client])

\* C13: a client has the BatchRequest member exactly when a batch package was
\* supplied to its constructor; a child made by extend, which is constructed
\* without one, has none.
C13_BatchRequestIffPackage ==
    \A c \in Live :
        (targetMember(c, "BatchRequest").value # Undefined)
            <=> (batchRequestPackageOf(c) \notin {Null, Undefined})

\* The clients setProvider on c updates, in the order it reaches them: c, then
\* each extended package with all below it before the next one.
RECURSIVE propagationOrder(_), propagationOrderOf(_)
propagationOrder(c) == <<c>> \o propagationOrderOf(extendedPackages[c])
propagationOrderOf(packages) ==
    IF packages = <<>> THEN <<>>
    ELSE propagationOrder(Head(packages)) \o propagationOrderOf(Tail(packages))

\* The clients whose slot the last operation set, in the order of the sets.
isSet(event) == event[1] = "set"
isClear(event) == event[1] = "clear"
slotsSet == [i \in 1..Len(SelectSeq(last.events, isSet)) |->
                SelectSeq(last.events, isSet)[i][2]]

\* C14: setProvider(P) with a resolvable P on a parent with the extended
\* packages A, B updates the parent's slot first and then the children one at
\* a time in list order, each with all below it before the next.
C14_PropagationInListOrder ==
    (/\ last.op = "setProvider"
     /\ resolvable(last.arg)
     /\ providerArg[last.client] \in Transports
     /\ Len(extendedPackages[last.client]) >= 2
     /\ NoSetProviderModel)
    => slotsSet = propagationOrder(last.client)

\* C15: setting the provider to the instance the client was constructed with
\* and holds is not special-cased: the call succeeds after one clear-then-set
\* cycle (the clear when that transport has live subscriptions), and the slot
\* holds that instance afterwards.
C15_SameInstanceFullCycle ==
    [][(/\ last'.op = "setProvider"
        /\ last'.arg \in Transports
        /\ last'.arg = providerArg[last'.client]
        /\ extendedPackages[last'.client] = <<>>
        /\ NoSetProviderModel)
       => (/\ last'.outcome = "ok"
           /\ currentProvider'[last'.client] = last'.arg
           /\ Len(SelectSeq(last'.events, isSet)) = 1
           /\ (hasClearSubscriptions(last'.arg) /\ subscriptions[last'.arg] > 0)
                  => (/\ Len(SelectSeq(last'.events, isClear)) = 1
                      /\ subscriptions'[last'.arg] = 0))]_vars

\* C16: a property access that raises the duplicate-method error changes
\* nothing: the factories' models, the provider slots, the extended-packages
\* lists, the members and the callable held are as before, the controller is
\* not invoked, and every later access answers as it would have before.
C16_DuplicateErrorChangesNothing ==
    [][(last'.op = "get" /\ last'.outcome = "DuplicateError")
       => (/\ UNCHANGED <<globalAbstractMethodModel, nClients, providerArg,
                          currentProvider, extendedPackages, namespaces,
                          methodModels, subscriptions, clearCalls, held>>
           /\ last'.execs = <<>>
           /\ \A c \in Clients, n \in AccessNames :
                  proxyHandler(c, n)' = proxyHandler(c, n))]_vars

\* A read of a method-model name that is also a prototype method was refused
\* while the caller held a callable from an earlier read.
C16_Witness ==
    /\ last.op = "get" /\ last.outcome = "DuplicateError"
    /\ last.name = "setProvider"
    /\ held.target # 0

\* C17: a property access of a name without a registered method model returns
\* the client's ordinary member of that name (a field, a prototype method, a
\* namespace child or undefined), raises nothing, creates no method model and
\* does not invoke the controller.
C17_UnregisteredNameDelegates ==
    [][(last'.op = "get" /\ ~hasMethodModel(last'.client, last'.name))
       => (/\ last'.outcome = "ok"
           /\ last'.kind = "member"
           /\ last'.value = targetMember(last'.client, last'.name).value
           /\ last'.ref = targetMember(last'.client, last'.name).ref
           /\ last'.execs = <<>>
           /\ held' = held
           /\ methodModels' = methodModels)]_vars

\* A read of a namespace name without a method model returned the child.
C17_Witness ==
    /\ last.op = "get" /\ last.outcome = "ok"
    /\ ~hasMethodModel(last.client, last.name)
    /\ last.kind = "member" /\ last.value = "client"
    /\ last.ref = namespaces[last.client][last.name]

\* C18: an extend with a namespace appends the child it creates to the
\* extended-packages list of the client it is called on; an extend without a
\* namespace and every other operation leave all lists as they are. So each
\* list holds the children created on its client once each, in the order of
\* the extend calls (children are numbered in the order of their creation).
C18_PackagesAppendOnly ==
    [][/\ (last'.op = "extend" /\ last'.name # None)
           => /\ nClients' = nClients + 1
              /\ extendedPackages' =
                     [extendedPackages EXCEPT ![last'.client] = Append(@, nClients')]
       /\ ~(last'.op = "extend" /\ last'.name # None)
           => extendedPackages' = extendedPackages
       /\ \A c \in Clients :
              \A i, j \in 1..Len(extendedPackages'[c]) :
                  i < j => extendedPackages'[c][i] < extendedPackages'[c][j]]_vars

\* A second extend with a namespace on the same client: its list holds both
\* children.
C18_Witness ==
    /\ last.op = "extend" /\ last.name # None
    /\ Len(extendedPackages[last.client]) = 2
    /\ extendedPackages[last.client][2] = nClients

\* C19: right after an extend with a namespace on a parent that was
\* constructed with a transport, the child holds a transport, and it is the
\* one the parent's provider slot holds.
C19_ChildSharesParentTransport ==
    (/\ last.op = "extend" /\ last.name # None
     /\ providerArg[last.client] \in Transports)
    => (/\ currentProvider[last.ref] \in Transports
        /\ currentProvider[last.ref] = currentProvider[last.client])

=============================================================================
